---- MODULE Spec2Model ----
(***************************************************************************)
(* The application state store of the calorie tracker                      *)
(* (src/hooks/useAppState.tsx) together with the handlers of src/App.tsx   *)
(* that drive it, the forms that add an entry after an AI estimate, and    *)
(* the AI operations of src/services/geminiService.ts, which replace       *)
(* globalThis.fetch while they wait for the network.                       *)
(* JavaScript values are tagged records [t |-> type, ...];                 *)
(* a property that is absent from an object reads as Undef.                *)
(*                                                                         *)
(* Scheduling follows React 18 (src/index.tsx uses createRoot): the state  *)
(* updates queued by one handler are applied in one commit, and the        *)
(* passive effects of a commit run before the next commit is rendered.     *)
(***************************************************************************)
EXTENDS Integers, Sequences, FiniteSets, TLC

VARIABLES
  appState,          \* useState<AppState>: the in-memory snapshot
  isInitialized,     \* useState(false)
  selectedDate,      \* useState(new Date()): an instant, in hours since the UTC
                     \* midnight that starts the first day of Calendar
  tzOffset,          \* the device's timezone: local time = UTC + tzOffset hours
  dateString,        \* getDateString(selectedDate)
  storage,           \* localStorage item 'calorieTrackerState'
  persistPending,    \* the persist effect of the last commit has not run yet
  reloadRequested,   \* window.location.reload() was called, page not yet unloaded
  crashed,           \* an exception escaped a render: React unmounted the tree
  now,               \* Date.now()
  navigatorLanguage, \* navigator.language
  globalFetch,       \* globalThis.fetch: how many proxies wrap the browser's fetch
  aiOps,             \* the AI operations suspended at their await, each with what
                     \* it and its caller captured
  isLoading,         \* AiAssistantView's useState(false)
  mounted,           \* App has been rendered
  lastImport,        \* history: the file handleImport just read and importData's outcome
  batch,             \* history: the states produced by the updaters of the commit
                     \* whose persist effect is pending
  writeFailures,     \* history: how many times localStorage.setItem threw
  aiLast,            \* history: the AI operation that was just called or just ended
  uninitReads,       \* history: the fields of appState that App's render read
                     \* while isInitialized was false
  i18n,              \* useTranslation: the module's translationCache and
                     \* loadingStates, the fetches of locale files in flight,
                     \* and the state of each mounted instance of the hook
  activeView,        \* App's useState<ActiveView>('dashboard')
  tLast              \* history: the last call of t and what it returned

vars == <<appState, isInitialized, selectedDate, tzOffset, dateString, storage, persistPending,
          reloadRequested, crashed, now, navigatorLanguage, globalFetch, aiOps,
          isLoading, mounted, lastImport, batch, writeFailures, aiLast,
          uninitReads, i18n, activeView, tLast>>

aiState == <<globalFetch, aiOps, isLoading>>
viewState == <<mounted, uninitReads>>
dateState == <<selectedDate, dateString>>
langState == <<i18n, activeView, tLast>>

-----------------------------------------------------------------------------
(* Bounds *)

MaxClock == 1      \* the clock advances at most this many ticks
MaxEntries == 2    \* entries in all logs together
MaxChat == 2       \* messages in chatHistory when a message is sent
MaxOps == 2        \* AI operations in flight
MaxProxies == 2    \* proxies around the browser's fetch
MaxWriteFailures == 1  \* failing writes to localStorage
Clock0 == 9        \* Date.now() at page start
MaxTz == 8         \* the timezone is at most this many hours from UTC

-----------------------------------------------------------------------------
(* JavaScript values *)

Undef == [t |-> "undefined"]
Null == [t |-> "null"]
Num(n) == [t |-> "number", v |-> n]
Str(s) == [t |-> "string", v |-> s]
Bool(b) == [t |-> "boolean", v |-> b]
Arr(s) == [t |-> "array", v |-> s]
Obj(f) == [t |-> "object", v |-> f]

EmptyObj == Obj(<<>>)

\* typeof v
TypeOf(v) ==
  CASE v.t = "array" -> "object"
    [] v.t = "null" -> "object"
    [] OTHER -> v.t

\* ToBoolean(v): the test of &&, || and if
Truthy(v) ==
  CASE v.t \in {"undefined", "null"} -> FALSE
    [] v.t = "number" -> v.v # 0
    [] v.t = "string" -> v.v # ""
    [] v.t = "boolean" -> v.v
    [] OTHER -> TRUE

\* o.k throws a TypeError when o is null or undefined
ReadThrows(o) == o.t \in {"undefined", "null"}

\* o.k for an o that can be read
Get(o, k) == IF o.t = "object" /\ k \in DOMAIN o.v THEN o.v[k] ELSE Undef

\* the own enumerable properties {...o} copies (none for null, numbers, booleans)
Spread(o) == IF o.t = "object" THEN o.v ELSE <<>>

\* a || b
OrElse(a, b) == IF Truthy(a) THEN a ELSE b

Keys == {"dailyGoal", "macronutrientGoals", "logs", "customFoods", "apiKey",
         "aiModel", "language", "userProfile", "chatHistory"}

\* the AppState snapshot held in memory: every key of AppState, Undef when absent
AsState(o) == [k \in Keys |-> Get(o, k)]

Digits == <<"0", "1", "2", "3", "4", "5", "6", "7", "8", "9">>

RECURSIVE toString(_)
\* Number.prototype.toString of a non-negative integer, as its decimal digits
toString(n) ==
  IF n < 10 THEN <<Digits[n + 1]>>
  ELSE toString(n \div 10) \o <<Digits[(n % 10) + 1]>>

-----------------------------------------------------------------------------
(* JSON *)

NoItem == [t |-> "none"]            \* getItem returns null
Garbage == [t |-> "garbage"]        \* text that JSON.parse rejects
Unavailable == [t |-> "unavailable"]  \* getItem and setItem throw
Json(v) == [t |-> "json", v |-> v]  \* the JSON text of the value v

\* JSON.stringify(appState): properties whose value is undefined are left out
Stringify(s) == Json(Obj([k \in {j \in Keys : s[j] # Undef} |-> s[k]]))

ParseThrows(text) == text.t = "garbage"

\* JSON.parse(text) for a text it accepts
Parse(text) == text.v

-----------------------------------------------------------------------------
(* initialAppState *)

Locales == {"en-US", "zh-TW"}

getInitialLanguage(browserLang) ==
  IF browserLang \in {"zh-TW", "zh-HK"} THEN "zh-TW" ELSE "en"

DefaultGoals == Obj([protein |-> 150, carbs |-> 250, fat |-> 60])

DefaultProfile ==
  Obj([age |-> Null, sex |-> Null, weight |-> Null, height |-> Null,
       activityLevel |-> Str("moderate")])

initialAppState(browserLang) ==
  [dailyGoal |-> Num(2000),
   macronutrientGoals |-> DefaultGoals,
   logs |-> EmptyObj,
   customFoods |-> Arr(<<>>),
   apiKey |-> Null,
   aiModel |-> Str("gemini-2.5-flash"),
   language |-> Str(getInitialLanguage(browserLang)),
   userProfile |-> DefaultProfile,
   chatHistory |-> Arr(<<>>)]

-----------------------------------------------------------------------------
(* Inputs *)

Today == "2024-01-02"
Dates == {"2024-01-01", Today}

\* the calendar days the page is used on, in order
Calendar == <<"2024-01-01", Today, "2024-01-03">>

\* date.toISOString().split('T')[0]: the calendar day of the instant in UTC
getDateString(date) == Calendar[(date \div 24) + 1]

\* the instants whose day is in Calendar both in UTC and on a device at tz
Instants(tz) ==
  {h \in 0 .. 24 * Len(Calendar) - 1 : h + tz \in 0 .. 24 * Len(Calendar) - 1}

\* an instant of the UTC day d: its noon
NoonOf(d) == CHOOSE h \in Instants(0) : getDateString(h) = d /\ h % 24 = 12

TzOffsets == {0 - MaxTz, 0, MaxTz}

FoodInputs ==
  {[name |-> "Apple", calories |-> 95, protein |-> 0, carbs |-> 25, fat |-> 0,
    meal |-> "snack"]}

ExerciseInputs == {[name |-> "Running", duration |-> 30, calories |-> 300]}

UserMessage == [role |-> "user", text |-> "hello"]
ModelMessage == [role |-> "model", text |-> "advice"]

\* what the settings form holds when the user presses save
SettingsInputs ==
  {[apiKey |-> Str("key"), aiModel |-> Str("gemini-2.5-pro"),
    language |-> Str("zh-TW"),
    userProfile |-> Obj([age |-> Num(30), sex |-> Str("male"), weight |-> Num(70),
                         height |-> Num(175), activityLevel |-> Str("active")]),
    dailyGoal |-> Num(2200),
    macronutrientGoals |-> Obj([protein |-> 120, carbs |-> 200, fat |-> 50])],
   [apiKey |-> Str(""), aiModel |-> Str("gemini-2.5-flash"),
    language |-> Str("en"),
    userProfile |-> Obj([weight |-> Num(80)]),
    dailyGoal |-> Num(1800),
    macronutrientGoals |-> DefaultGoals]}

ImportedEntry ==
  [name |-> "Rice", calories |-> 200, protein |-> 4, carbs |-> 45, fat |-> 0,
   meal |-> "lunch", id |-> <<"5">>]

\* a complete backup, as handleExport writes it
FullBackup ==
  Json(Obj([dailyGoal |-> Num(2500),
            macronutrientGoals |-> Obj([protein |-> 100, carbs |-> 300, fat |-> 70]),
            logs |-> Obj("2024-01-01" :> [food |-> <<ImportedEntry>>, exercise |-> <<>>]),
            customFoods |-> Arr(<<>>),
            apiKey |-> Str("imported-key"),
            aiModel |-> Str("gemini-2.5-pro"),
            language |-> Str("zh-TW"),
            userProfile |-> Obj([age |-> Num(40), sex |-> Str("female"),
                                 weight |-> Num(60), height |-> Num(165),
                                 activityLevel |-> Str("light")]),
            chatHistory |-> Arr(<<UserMessage, ModelMessage>>)]))

\* the files the user may pick in the import dialog
ImportFiles ==
  {FullBackup,
   Json(Obj([logs |-> EmptyObj, dailyGoal |-> Num(1800)])),
   Json(Obj([logs |-> EmptyObj, dailyGoal |-> Num(1700), customFoods |-> Null,
             aiModel |-> Null, userProfile |-> Null, chatHistory |-> Null])),
   Json(Obj([logs |-> Bool(TRUE), dailyGoal |-> Num(1600)])),
   Json(Obj([dailyGoal |-> Num(1800)])),
   Json(Obj([logs |-> Null, dailyGoal |-> Num(1800)])),
   Json(Obj([logs |-> EmptyObj, dailyGoal |-> Str("1800")])),
   Json(Obj([logs |-> EmptyObj])),
   Json(Null),
   Garbage}

\* a stored state that holds the language chosen in an earlier session
StoredLanguage(language) == Json(Obj([language |-> Str(language)]))

\* what localStorage may hold when the page is first opened
StoredAtStart ==
  {NoItem,
   Unavailable,
   Garbage,
   Json(Null),
   Json(Obj([dailyGoal |-> Num(2100)])),
   Json(Obj([logs |-> Null, dailyGoal |-> Null, customFoods |-> Null,
             aiModel |-> Num(0)]))}

-----------------------------------------------------------------------------
(* The load effect *)

\* a load that gives up on a stored value as soon as a nested object is missing
LoadState_wholesale(text, browserLang) ==
  LET init == initialAppState(browserLang) IN
  IF text.t # "json" THEN init
  ELSE IF Parse(text).t # "object" THEN init
  ELSE IF ~({"userProfile", "chatHistory", "macronutrientGoals"}
              \subseteq DOMAIN Parse(text).v)
       THEN init
       ELSE [k \in Keys |->
               IF k \in DOMAIN Parse(text).v THEN Parse(text).v[k] ELSE init[k]]

\* the value the load effect passes to setAppState
LoadState(text, browserLang) ==
  LET init == initialAppState(browserLang) IN
  IF text.t = "unavailable" THEN init
  ELSE IF text.t = "none" THEN init
  ELSE IF ParseThrows(text) THEN init
  ELSE LET parsedState == Parse(text) IN
       IF ReadThrows(parsedState) THEN init
       ELSE LET language == OrElse(Get(parsedState, "language"),
                                   Str(getInitialLanguage(browserLang)))
                userProfile == OrElse(Get(parsedState, "userProfile"), init.userProfile)
                chatHistory == OrElse(Get(parsedState, "chatHistory"), Arr(<<>>))
                macronutrientGoals == OrElse(Get(parsedState, "macronutrientGoals"),
                                             init.macronutrientGoals)
                merged == [k \in Keys |->
                             IF k \in DOMAIN Spread(parsedState)
                             THEN Spread(parsedState)[k] ELSE init[k]]
            IN [merged EXCEPT !.language = language,
                              !.userProfile = userProfile,
                              !.chatHistory = chatHistory,
                              !.macronutrientGoals = macronutrientGoals]

\* App renders getLogForDate(...) = appState.logs[date] || {...}: reading a
\* property of null or undefined throws
RenderThrows(s) == ReadThrows(s.logs)

-----------------------------------------------------------------------------
(* The store's updaters: prev => next *)

EmptyLog == [food |-> <<>>, exercise |-> <<>>]

\* prev.logs[dateString] is a DailyLog (a truthy value)
HasLog(prev, d) == prev.logs.t = "object" /\ d \in DOMAIN prev.logs.v

\* prev.logs[dateString] || { food: [], exercise: [] }
LogOrEmpty(prev, d) == IF HasLog(prev, d) THEN prev.logs.v[d] ELSE EmptyLog

\* { ...prev, logs: { ...prev.logs, [dateString]: newLog } }
WithLog(prev, d, newLog) ==
  [prev EXCEPT !.logs =
     Obj([k \in (DOMAIN Spread(prev.logs)) \cup {d} |->
            IF k = d THEN newLog ELSE Spread(prev.logs)[k]])]

\* a getLogForDate without the `|| { food: [], exercise: [] }`
getLogForDate_noDefault(s, date) == IF HasLog(s, date) THEN s.logs.v[date] ELSE Undef

\* what getLogForDate(date) returns
getLogForDate(s, date) == LogOrEmpty(s, date)

\* the state after getLogForDate(date): it only reads appState.logs
AfterGetLog(s, date) == s

\* an addFood that puts the new entry in front of the list
addFoodUpdater_prepend(prev, food, d, t) ==
  LET newFoodEntry == [id |-> toString(t)] @@ food
      currentLog == LogOrEmpty(prev, d)
      newLog == [currentLog EXCEPT !.food = <<newFoodEntry>> \o currentLog.food]
  IN WithLog(prev, d, newLog)

addFoodUpdater(prev, food, d, t) ==
  LET newFoodEntry == [id |-> toString(t)] @@ food
      currentLog == LogOrEmpty(prev, d)
      newLog == [currentLog EXCEPT !.food = Append(currentLog.food, newFoodEntry)]
  IN WithLog(prev, d, newLog)

addExerciseUpdater(prev, exercise, d, t) ==
  LET newExerciseEntry == [id |-> toString(t)] @@ exercise
      currentLog == LogOrEmpty(prev, d)
      newLog == [currentLog EXCEPT
                   !.exercise = Append(currentLog.exercise, newExerciseEntry)]
  IN WithLog(prev, d, newLog)

\* food.filter(f => f.id !== foodId)
FilterOut(entries, id) == SelectSeq(entries, LAMBDA e : e.id # id)

removeFoodUpdater(prev, foodId, d) ==
  IF ~HasLog(prev, d) THEN prev
  ELSE LET currentLog == prev.logs.v[d]
           newLog == [currentLog EXCEPT !.food = FilterOut(currentLog.food, foodId)]
       IN WithLog(prev, d, newLog)

removeExerciseUpdater(prev, exerciseId, d) ==
  IF ~HasLog(prev, d) THEN prev
  ELSE LET currentLog == prev.logs.v[d]
           newLog == [currentLog EXCEPT
                        !.exercise = FilterOut(currentLog.exercise, exerciseId)]
       IN WithLog(prev, d, newLog)

setDailyGoal(prev, goal) == [prev EXCEPT !.dailyGoal = goal]
setApiKey(prev, apiKey) == [prev EXCEPT !.apiKey = apiKey]
setMacronutrientGoals(prev, goals) == [prev EXCEPT !.macronutrientGoals = goals]
setAiModel(prev, aiModel) == [prev EXCEPT !.aiModel = aiModel]
setLanguage(prev, language) == [prev EXCEPT !.language = language]

updateUserProfile_replace(prev, profile) == [prev EXCEPT !.userProfile = profile]

\* { ...prev.userProfile, ...profile }
updateUserProfile(prev, profile) ==
  [prev EXCEPT !.userProfile =
     Obj([k \in (DOMAIN Spread(prev.userProfile)) \cup (DOMAIN Spread(profile)) |->
            IF k \in DOMAIN Spread(profile) THEN Spread(profile)[k]
            ELSE Spread(prev.userProfile)[k]])]

setChatHistory(prev, history) == [prev EXCEPT !.chatHistory = Arr(history)]
clearChatHistory(prev) == [prev EXCEPT !.chatHistory = Arr(<<>>)]

\* an importData that returns true without calling setAppState
importData_noSet(newState) ==
  IF Truthy(newState) /\ Truthy(Get(newState, "logs"))
     /\ TypeOf(Get(newState, "dailyGoal")) = "number"
  THEN [ret |-> TRUE, threw |-> FALSE, set |-> FALSE]
  ELSE [ret |-> FALSE, threw |-> FALSE, set |-> FALSE]

\* an importData that tests dailyGoal for presence instead of its type
importData_anyGoal(newState) ==
  IF Truthy(newState) /\ Truthy(Get(newState, "logs"))
     /\ Truthy(Get(newState, "dailyGoal"))
  THEN [ret |-> TRUE, threw |-> FALSE, set |-> TRUE]
  ELSE [ret |-> FALSE, threw |-> FALSE, set |-> FALSE]

\* importData(newState): what it returns, whether it throws, and the state
\* it passes to setAppState
importData(newState) ==
  IF ~Truthy(newState) THEN [ret |-> FALSE, threw |-> FALSE, set |-> FALSE]
  ELSE IF ReadThrows(newState) THEN [ret |-> FALSE, threw |-> TRUE, set |-> FALSE]
  ELSE IF Truthy(Get(newState, "logs"))
          /\ TypeOf(Get(newState, "dailyGoal")) = "number"
       THEN [ret |-> TRUE, threw |-> FALSE, set |-> TRUE]
       ELSE [ret |-> FALSE, threw |-> FALSE, set |-> FALSE]

\* all entries of all logs
AllEntries(s) ==
  IF s.logs.t # "object" THEN 0
  ELSE LET RECURSIVE Sum(_)
           Sum(D) == IF D = {} THEN 0
                     ELSE LET d == CHOOSE x \in D : TRUE
                          IN Len(s.logs.v[d].food) + Len(s.logs.v[d].exercise)
                             + Sum(D \ {d})
       IN Sum(DOMAIN s.logs.v)

ChatOf(s) == IF s.chatHistory.t = "array" THEN s.chatHistory.v ELSE <<>>

\* the ids of all entries of all logs
AllIds(s) ==
  IF s.logs.t # "object" THEN {}
  ELSE UNION {{s.logs.v[d].food[i].id : i \in DOMAIN s.logs.v[d].food}
              \cup {s.logs.v[d].exercise[i].id : i \in DOMAIN s.logs.v[d].exercise}
              : d \in DOMAIN s.logs.v}

-----------------------------------------------------------------------------
(* The AI operations of src/services/geminiService.ts *)

AiKinds ==
  {"getAiAdvice", "getAiFoodAnalysis", "getAiFoodCalories", "getAiExerciseCalories"}

\* createProxyFetch(baseUrl, originalFetch): a fetch that rewrites the URL and
\* calls originalFetch, i.e. one more proxy around it
createProxyFetch(originalFetch) == originalFetch + 1

\* the language of the text an operation answers with when `!apiKey`:
\* getAiAdvice returns one of two translations, the other three throw
\* new Error("API Key is not set.")
MissingKeyAnswer(kind, language) ==
  IF kind = "getAiAdvice"
  THEN [how |-> "return", lang |-> IF language = Str("zh-TW") THEN "zh-TW" ELSE "en"]
  ELSE [how |-> "throw", lang |-> "en"]

\* how the awaited request of an operation can end: with a response, with an
\* Error (network, invalid key, unsupported model), or with a thrown value
\* that has no `message` string
AiOutcomes == {"ok", "failed", "thrown"}

\* getAiAdvice resolves: its catch evaluates error.message.includes(...), which
\* is itself a TypeError when the caught value has no message string
AdviceSettles(outcome) == outcome # "thrown"

\* how an operation hands its outcome to the caller: getAiAdvice returns a
\* text unless its catch throws, getAiFoodAnalysis returns an analysis from
\* its catch too, the two estimates rethrow a localized Error
AiHow(kind, outcome) ==
  CASE kind = "getAiAdvice" -> IF AdviceSettles(outcome) THEN "return" ELSE "throw"
    [] kind = "getAiFoodAnalysis" -> "return"
    [] OTHER -> IF outcome = "ok" THEN "return" ELSE "throw"

\* the text getAiAdvice resolves with: the model's answer or, from its catch,
\* an error message
AdviceMessage(outcome) ==
  IF outcome = "ok" THEN ModelMessage ELSE [role |-> "model", text |-> "error"]

NoAiCall ==
  [kind |-> "", phase |-> "none", language |-> Null, how |-> "", lang |-> "",
   fetchBefore |-> 0, network |-> FALSE]

-----------------------------------------------------------------------------
(* useTranslation (src/App.tsx): locale files, the lookup t *)

Langs == {"en", "zh-TW"}

\* the components that call useTranslation(appState.language): App, and two of
\* the components LogView renders; passive effects run children first
HookIds == {"App", "AddFoodForm", "FoodLog"}
HookOrder == <<"AddFoodForm", "FoodLog", "App">>
Children == HookIds \ {"App"}

\* an instance of the hook: `language` is the language its effect last ran
\* for ("" before the first run), `polling` the languages whose checkLoaded
\* timer is armed
NoHook == [mounted |-> FALSE, language |-> "", isLoaded |-> FALSE, polling |-> {}]
MountedHook == [NoHook EXCEPT !.mounted = TRUE]

\* the module as it is evaluated: nothing cached, nothing loading
NoTranslations ==
  [translationCache |-> [l \in Langs |-> Null],
   loadingStates |-> [l \in Langs |-> FALSE],
   fetches |-> <<>>,
   hooks |-> [h \in HookIds |-> NoHook]]

NoTCall == [key |-> "", language |-> "", isLoaded |-> FALSE, text |-> Undef]

\* a fetch that did not deliver a locale file: the request failed, the
\* response was not ok, or its body was not JSON
Failed == [t |-> "failed"]

\* the locale files /locales/<language>.json as deployed
LocaleFile(language) ==
  IF language = "en"
  THEN Obj([title |-> Str("Tracker"),
            common |-> Obj([save |-> Str("Save"), cancel |-> Str("Cancel")])])
  ELSE Obj([common |-> Obj([save |-> Str("Baocun")])])

\* what a locale file may hold: both files above, a file in which `common`
\* is a text, and an empty file
LocaleTrees ==
  {LocaleFile("en"), LocaleFile("zh-TW"), Obj([common |-> Str("Common")]), EmptyObj}

\* the keys the views pass to t
TKeys == {"title", "common", "common.save", "common.cancel", "title.sub", "nav.log"}

\* key.split('.')
Split(key) ==
  CASE key = "title" -> <<"title">>
    [] key = "common" -> <<"common">>
    [] key = "common.save" -> <<"common", "save">>
    [] key = "common.cancel" -> <<"common", "cancel">>
    [] key = "title.sub" -> <<"title", "sub">>
    [] key = "nav.log" -> <<"nav", "log">>

\* path.reduce((obj, k) => obj && obj[k], langData)
RECURSIVE Reduce(_, _)
Reduce(path, obj) ==
  IF path = <<>> THEN obj
  ELSE Reduce(Tail(path), IF Truthy(obj) THEN Get(obj, Head(path)) ELSE obj)

\* a lookup that gives up when the active language has no text for the key
t_noFallback(translationCache, language, isLoaded, key) ==
  IF ~isLoaded THEN Str(key)
  ELSE LET langData == OrElse(translationCache[language],
                              OrElse(translationCache["en"], EmptyObj))
           text == Reduce(Split(key), langData)
       IN IF text.t # "string" THEN Str(key) ELSE text

\* t(key), called without options
t(translationCache, language, isLoaded, key) ==
  IF ~isLoaded THEN Str(key)
  ELSE LET langData == OrElse(translationCache[language],
                              OrElse(translationCache["en"], EmptyObj))
           text == Reduce(Split(key), langData)
       IN IF text.t # "string"
          THEN IF language # "en" /\ Truthy(translationCache["en"])
               THEN LET fallbackText == Reduce(Split(key), translationCache["en"])
                    IN IF fallbackText.t = "string" THEN fallbackText ELSE Str(key)
               ELSE Str(key)
          ELSE text

-----------------------------------------------------------------------------
(* The page *)

NoImport == [file |-> NoItem, ret |-> FALSE, threw |-> FALSE, reloaded |-> FALSE]

\* the page at its start, but for the stored text and the clock of the device
InitView ==
  /\ navigatorLanguage \in Locales
  /\ appState = initialAppState(navigatorLanguage)
  /\ isInitialized = FALSE
  /\ persistPending = FALSE
  /\ reloadRequested = FALSE
  /\ crashed = FALSE
  /\ now = Clock0
  /\ globalFetch = 0
  /\ aiOps = <<>>
  /\ isLoading = FALSE
  /\ mounted = FALSE
  /\ lastImport = NoImport
  /\ batch = <<>>
  /\ writeFailures = 0
  /\ aiLast = NoAiCall
  /\ uninitReads = {}
  /\ i18n = NoTranslations
  /\ activeView = "dashboard"
  /\ tLast = NoTCall

\* the page at its start, but for the clock of the device
InitPage == InitView /\ storage \in StoredAtStart

\* the page opened at noon of Today on a device whose timezone is UTC
Init ==
  /\ InitPage
  /\ tzOffset = 0
  /\ selectedDate = NoonOf(Today)
  /\ dateString = getDateString(selectedDate)

\* the page opened at any hour, on a device in any timezone
InitDate ==
  /\ InitPage
  /\ tzOffset \in TzOffsets
  /\ selectedDate \in Instants(tzOffset)
  /\ dateString = getDateString(selectedDate)

\* the views are rendered, no commit is waiting for its effects, the page stays
Ready == isInitialized /\ ~crashed /\ ~persistPending /\ ~reloadRequested

\* one commit: the updaters queued by a handler produced the states `produced`,
\* the last of them becomes appState and the persist effect is scheduled
Commit(produced) ==
  /\ appState' = produced[Len(produced)]
  /\ batch' = produced
  /\ persistPending' = TRUE

\* the fields of appState that App's render reads ahead of its gate
\* `if (!isInitialized || !isLoaded)`: appState.language for useTranslation and
\* appState.logs through getLogForDate
ReadsAheadOfGate == {"language", "logs"}

\* the first render of AppStateProvider and App, before any effect has run
Mount ==
  /\ ~mounted
  /\ mounted' = TRUE
  /\ uninitReads' = IF isInitialized THEN {} ELSE ReadsAheadOfGate
  /\ i18n' = [i18n EXCEPT !.hooks["App"] = MountedHook]
  /\ UNCHANGED <<appState, isInitialized, dateState, storage, persistPending,
                 reloadRequested, crashed, now, navigatorLanguage, aiState, aiLast,
                 lastImport, batch, writeFailures, tzOffset, activeView, tLast>>

\* a load effect whose catch does not cover getItem and JSON.parse
LoadThrows_noCatch(text) == text.t \in {"unavailable", "garbage"}

\* an exception leaves the load effect: never, its whole body is inside the try
LoadThrows(text) == FALSE

\* a load effect that sets the flag only at the end of its try block
LoadFlag_insideTry(text) ==
  text.t = "none" \/ (text.t = "json" /\ ~ReadThrows(text.v))

\* the load effect reaches setIsInitialized(true), which follows the try/catch
LoadFlag(text) == TRUE

\* a persist effect that writes on every pass, the mount pass included
PersistGate_open(initialized) == TRUE

\* the persist effect writes only `if (isInitialized)`
PersistGate(initialized) == initialized

\* the effects of the mount pass, and the render that follows them: the load
\* effect reads the stored text and queues the loaded state and the flag; the
\* persist effect of the same pass still sees the state and the flag of the
\* first render
Load ==
  /\ mounted /\ ~isInitialized /\ ~crashed
  /\ appState' = LoadState(storage, navigatorLanguage)
  /\ isInitialized' = LoadFlag(storage)
  /\ storage' = IF PersistGate(isInitialized) /\ storage # Unavailable
                THEN Stringify(appState)
                ELSE storage
  /\ crashed' = (LoadThrows(storage) \/ RenderThrows(appState'))
  /\ persistPending' = (isInitialized' /\ ~crashed')
  /\ UNCHANGED <<dateState, reloadRequested, now, navigatorLanguage,
                 aiState, aiLast, viewState, tzOffset, langState, lastImport, batch, writeFailures>>

\* a persist effect that leaves the chat history out of what it writes
PersistedText_partial(s) == Stringify([s EXCEPT !.chatHistory = Undef])

\* what the persist effect hands to localStorage.setItem
PersistedText(s) == Stringify(s)

\* the persist effect, setItem succeeds
PersistOk ==
  /\ persistPending /\ isInitialized /\ ~crashed
  /\ storage # Unavailable
  /\ storage' = PersistedText(appState)
  /\ persistPending' = FALSE
  /\ batch' = <<>>
  /\ UNCHANGED <<appState, isInitialized, dateState, reloadRequested, crashed, now,
                 navigatorLanguage, aiState, aiLast, viewState, tzOffset, langState, lastImport, writeFailures>>

\* a catch that rolls the state back to what the stored text holds
AfterFailedWrite_rollback(s, text) ==
  IF text.t = "json" THEN AsState(Parse(text)) ELSE s

\* what is left of the commit when setItem throws: the catch only logs
AfterFailedWrite(s, text) == s

\* the persist effect, setItem throws (quota exceeded, storage unavailable)
PersistFail ==
  /\ persistPending /\ isInitialized /\ ~crashed
  /\ storage = Unavailable \/ writeFailures < MaxWriteFailures
  /\ writeFailures' = IF writeFailures < MaxWriteFailures
                      THEN writeFailures + 1 ELSE writeFailures
  /\ persistPending' = FALSE
  /\ batch' = <<>>
  /\ appState' = AfterFailedWrite(appState, storage)
  /\ UNCHANGED <<storage, isInitialized, dateState, reloadRequested, crashed, now,
                 navigatorLanguage, aiState, aiLast, viewState, tzOffset, langState, lastImport>>

Tick ==
  /\ now < Clock0 + MaxClock
  /\ now' = now + 1
  /\ UNCHANGED <<appState, isInitialized, dateState, storage, persistPending,
                 reloadRequested, crashed, navigatorLanguage, aiState, aiLast, viewState, tzOffset, langState,
                 lastImport, batch, writeFailures>>

\* what a handler other than handleImport leaves alone
PageFrame ==
  /\ lastImport' = NoImport
  /\ UNCHANGED <<isInitialized, storage, reloadRequested, crashed, now,
                 navigatorLanguage, writeFailures, viewState, tzOffset, langState>>

\* what a handler that calls no AI operation leaves alone
StoreFrame == PageFrame /\ aiLast' = NoAiCall

setSelectedDate(d) ==
  /\ Ready
  /\ d # dateString
  /\ selectedDate' = NoonOf(d)
  /\ dateString' = getDateString(selectedDate')
  /\ StoreFrame
  /\ UNCHANGED <<appState, persistPending, aiState, batch>>

\* LogView.changeDate(days): setDate(getDate() + days) moves the instant by
\* whole days of local time
changeDate(days) ==
  /\ Ready
  /\ selectedDate + 24 * days \in Instants(tzOffset)
  /\ selectedDate' = selectedDate + 24 * days
  /\ dateString' = getDateString(selectedDate')
  /\ StoreFrame
  /\ UNCHANGED <<appState, persistPending, aiState, batch>>

addFood(food) ==
  /\ Ready
  /\ AllEntries(appState) < MaxEntries
  /\ Commit(<<addFoodUpdater(appState, food, dateString, now)>>)
  /\ StoreFrame
  /\ UNCHANGED <<dateState, aiState>>

addExercise(exercise) ==
  /\ Ready
  /\ AllEntries(appState) < MaxEntries
  /\ Commit(<<addExerciseUpdater(appState, exercise, dateString, now)>>)
  /\ StoreFrame
  /\ UNCHANGED <<dateState, aiState>>

\* an updater that returns prev itself causes no commit
CommitUnlessPrev(next) ==
  IF ~HasLog(appState, dateString)
  THEN UNCHANGED <<appState, batch, persistPending>>
  ELSE Commit(<<next>>)

removeFood(foodId) ==
  /\ Ready
  /\ CommitUnlessPrev(removeFoodUpdater(appState, foodId, dateString))
  /\ StoreFrame
  /\ UNCHANGED <<dateState, aiState>>

removeExercise(exerciseId) ==
  /\ Ready
  /\ CommitUnlessPrev(removeExerciseUpdater(appState, exerciseId, dateString))
  /\ StoreFrame
  /\ UNCHANGED <<dateState, aiState>>

\* the states the six setters of SettingsView.handleSave produce, in call order
SaveStates(prev, localState) ==
  LET s1 == setApiKey(prev, localState.apiKey)
      s2 == setAiModel(s1, localState.aiModel)
      s3 == setLanguage(s2, localState.language)
      s4 == updateUserProfile(s3, localState.userProfile)
      s5 == setDailyGoal(s4, localState.dailyGoal)
      s6 == setMacronutrientGoals(s5, localState.macronutrientGoals)
  IN <<s1, s2, s3, s4, s5, s6>>

\* SettingsView.handleSave: six setters, one commit. App renders one view at
\* a time: while the settings are shown no AiAssistantView is mounted, so no
\* isLoading flag is set
handleSave(localState) ==
  /\ Ready
  /\ ~isLoading
  /\ Commit(SaveStates(appState, localState))
  /\ StoreFrame
  /\ UNCHANGED <<dateState, aiState>>

\* what the caller of an AI operation keeps in its closure across the await
NoCapture ==
  [newHistory |-> <<>>, live |-> FALSE, date |-> "", entry |-> <<>>,
   snapshot |-> <<>>]

\* an AI operation is called: without a key it answers at once, with a key it
\* replaces globalThis.fetch by a proxy around the fetch it found and awaits
\* the network
AiCall(kind, apiKey, language, captured) ==
  IF ~Truthy(apiKey)
  THEN /\ aiLast' = [kind |-> kind, phase |-> "short-circuit", language |-> language,
                     how |-> MissingKeyAnswer(kind, language).how,
                     lang |-> MissingKeyAnswer(kind, language).lang,
                     fetchBefore |-> globalFetch, network |-> FALSE]
       /\ UNCHANGED <<globalFetch, aiOps>>
  ELSE /\ globalFetch' = createProxyFetch(globalFetch)
       /\ aiOps' = Append(aiOps, [kind |-> kind, originalFetch |-> globalFetch]
                                 @@ captured)
       /\ aiLast' = [kind |-> kind, phase |-> "called", language |-> language,
                     how |-> "", lang |-> "", fetchBefore |-> globalFetch,
                     network |-> TRUE]

\* a finally that resets fetch to the browser's own
RestoredFetch_default(op) == 0

\* finally { globalThis.fetch = originalFetch; }
RestoredFetch(op) == op.originalFetch

\* the awaited network call of the operation aiOps[i] ends, in success or failure
AiReturn(i, outcome) ==
  /\ globalFetch' = RestoredFetch(aiOps[i])
  /\ aiOps' = SubSeq(aiOps, 1, i - 1) \o SubSeq(aiOps, i + 1, Len(aiOps))
  /\ aiLast' = [kind |-> aiOps[i].kind, phase |-> "ended", language |-> Null,
                how |-> AiHow(aiOps[i].kind, outcome), lang |-> "",
                fetchBefore |-> globalFetch, network |-> TRUE]

\* room for one more operation
CanCall == Len(aiOps) < MaxOps /\ globalFetch < MaxProxies

\* the operations of one kind that are in flight
InFlight(kind) == {i \in DOMAIN aiOps : aiOps[i].kind = kind}

\* AiAssistantView.handleSend up to its await
handleSendStart ==
  /\ Ready
  /\ ~isLoading /\ Truthy(appState.apiKey)
  /\ Len(ChatOf(appState)) < MaxChat
  /\ CanCall
  /\ LET newHistory == Append(ChatOf(appState), UserMessage)
     IN /\ Commit(<<setChatHistory(appState, newHistory)>>)
        /\ AiCall("getAiAdvice", appState.apiKey, appState.language,
                  [NoCapture EXCEPT !.newHistory = newHistory, !.live = TRUE])
  /\ isLoading' = TRUE
  /\ PageFrame
  /\ UNCHANGED dateState

\* AiAssistantView.handleSend after its await; setIsLoading(false) reaches the
\* view only if the instance that sent is still mounted. The await is not
\* inside a try: when getAiAdvice rejects, the rest of handleSend does not run
handleSendReply(i, outcome) ==
  /\ Ready
  /\ i \in InFlight("getAiAdvice")
  /\ AiReturn(i, outcome)
  /\ IF AiHow("getAiAdvice", outcome) = "return"
     THEN /\ Commit(<<setChatHistory(appState,
                                     Append(aiOps[i].newHistory,
                                            AdviceMessage(outcome)))>>)
          /\ isLoading' = IF aiOps[i].live THEN FALSE ELSE isLoading
     ELSE UNCHANGED <<appState, batch, persistPending, isLoading>>
  /\ PageFrame
  /\ UNCHANGED dateState

\* the user leaves the AI view and comes back: a new AiAssistantView instance,
\* whose isLoading is false again
remountChat ==
  /\ Ready
  /\ isLoading
  /\ isLoading' = FALSE
  /\ aiOps' = [i \in DOMAIN aiOps |-> [aiOps[i] EXCEPT !.live = FALSE]]
  /\ StoreFrame
  /\ UNCHANGED <<appState, persistPending, batch, dateState, globalFetch>>

\* LogView.handleScan up to its await; without a key it only sets scanError
handleScan ==
  /\ Ready
  /\ Truthy(appState.apiKey)
  /\ InFlight("getAiFoodAnalysis") = {}
  /\ CanCall
  /\ AiCall("getAiFoodAnalysis", appState.apiKey, appState.language, NoCapture)
  /\ PageFrame
  /\ UNCHANGED <<appState, persistPending, batch, dateState, isLoading>>

\* LogView.handleScan after its await: it fills the form, not the store
handleScanEnd(i, outcome) ==
  /\ Ready
  /\ i \in InFlight("getAiFoodAnalysis")
  /\ AiReturn(i, outcome)
  /\ PageFrame
  /\ UNCHANGED <<appState, persistPending, batch, dateState, isLoading>>

\* AddFoodForm.handleSubmit with the calories left empty, up to its await;
\* without a key getAiFoodCalories throws and the catch sets the form's error.
\* The calories of `food` stand for the number the operation resolves with.
submitFood(food) ==
  /\ Ready
  /\ InFlight("getAiFoodCalories") = {}
  /\ CanCall
  /\ AllEntries(appState) + Len(aiOps) < MaxEntries
  /\ AiCall("getAiFoodCalories", appState.apiKey, appState.language,
            [NoCapture EXCEPT !.date = dateString, !.entry = food,
                              !.snapshot = appState])
  /\ PageFrame
  /\ UNCHANGED <<appState, persistPending, batch, dateState, isLoading>>

\* the snapshot an updater queued after an await is applied to, were it the
\* one its caller rendered with
UpdaterBase_captured(latest, captured) == captured

\* setAppState(updater): React hands the updater the latest state
UpdaterBase(latest, captured) == latest

\* AddFoodForm.handleSubmit after its await: onAddFood is the addFood of the
\* render that submitted, so the date is the one selected then
submitFoodEnd(i, outcome) ==
  /\ Ready
  /\ i \in InFlight("getAiFoodCalories")
  /\ IF AiHow(aiOps[i].kind, outcome) = "return"
     THEN Commit(<<addFoodUpdater(UpdaterBase(appState, aiOps[i].snapshot),
                                 aiOps[i].entry,
                                 aiOps[i].date, now)>>)
     ELSE UNCHANGED <<appState, persistPending, batch>>
  /\ AiReturn(i, outcome)
  /\ PageFrame
  /\ UNCHANGED <<dateState, isLoading>>

\* AddExerciseForm.handleSubmit up to its await
submitExercise(exercise) ==
  /\ Ready
  /\ InFlight("getAiExerciseCalories") = {}
  /\ CanCall
  /\ AllEntries(appState) + Len(aiOps) < MaxEntries
  /\ AiCall("getAiExerciseCalories", appState.apiKey, appState.language,
            [NoCapture EXCEPT !.date = dateString, !.entry = exercise,
                              !.snapshot = appState])
  /\ PageFrame
  /\ UNCHANGED <<appState, persistPending, batch, dateState, isLoading>>

\* AddExerciseForm.handleSubmit after its await
submitExerciseEnd(i, outcome) ==
  /\ Ready
  /\ i \in InFlight("getAiExerciseCalories")
  /\ IF AiHow(aiOps[i].kind, outcome) = "return"
     THEN Commit(<<addExerciseUpdater(UpdaterBase(appState, aiOps[i].snapshot),
                                     aiOps[i].entry,
                                     aiOps[i].date, now)>>)
     ELSE UNCHANGED <<appState, persistPending, batch>>
  /\ AiReturn(i, outcome)
  /\ PageFrame
  /\ UNCHANGED <<dateState, isLoading>>

clearChat ==
  /\ Ready
  /\ Commit(<<clearChatHistory(appState)>>)
  /\ StoreFrame
  /\ UNCHANGED <<dateState, aiState>>

\* SettingsView.handleImport, from the FileReader's onload on
handleImport(file) ==
  /\ Ready
  /\ IF ParseThrows(file)
     THEN /\ lastImport' = [file |-> file, ret |-> FALSE, threw |-> FALSE,
                            reloaded |-> FALSE]
          /\ UNCHANGED <<appState, batch, persistPending, reloadRequested>>
     ELSE LET r == importData(Parse(file))
          IN /\ lastImport' = [file |-> file, ret |-> r.ret, threw |-> r.threw,
                               reloaded |-> FALSE]
             /\ IF r.set
                THEN Commit(<<AsState(Parse(file))>>)
                ELSE UNCHANGED <<appState, batch, persistPending>>
             /\ reloadRequested' = r.ret
  /\ UNCHANGED <<isInitialized, dateState, storage, crashed, now, navigatorLanguage,
                 aiState, aiLast, viewState, tzOffset, langState, writeFailures>>

\* the page is unloaded and loaded again: effects that have not run are lost
Reload ==
  /\ reloadRequested
  /\ appState' = initialAppState(navigatorLanguage)
  /\ isInitialized' = FALSE
  /\ selectedDate' = NoonOf(Today)
  /\ dateString' = getDateString(selectedDate')
  /\ persistPending' = FALSE
  /\ reloadRequested' = FALSE
  /\ crashed' = FALSE
  /\ globalFetch' = 0
  /\ aiOps' = <<>>
  /\ isLoading' = FALSE
  /\ mounted' = FALSE
  /\ uninitReads' = {}
  /\ aiLast' = NoAiCall
  /\ batch' = <<>>
  /\ lastImport' = [lastImport EXCEPT !.reloaded = TRUE]
  /\ i18n' = NoTranslations
  /\ activeView' = "dashboard"
  /\ tLast' = NoTCall
  /\ UNCHANGED <<storage, now, navigatorLanguage, writeFailures, tzOffset>>

\* the language argument of the hooks in the current render
RenderLanguage == IF appState.language.t = "string" THEN appState.language.v ELSE ""

\* the effect of the instance h has not yet run for the rendered language
EffectPending(st, h) == st.hooks[h].mounted /\ st.hooks[h].language # RenderLanguage

EffectsDone == \A h \in HookIds : ~EffectPending(i18n, h)

\* App renders its views: `if (!isInitialized || !isLoaded)` shows the loader
GateOpen(st, initialized) == initialized /\ st.hooks["App"].isLoaded

\* the render that follows a change of the hooks' state: LogView's components
\* are mounted afresh when the gate opens on the log view and unmounted when
\* it closes; what a fetch of an unmounted instance sets later is lost
Rendered(st, initialized, view) ==
  LET shown == GateOpen(st, initialized) /\ view = "log"
      gone == {h \in Children : st.hooks[h].mounted /\ ~shown}
  IN [st EXCEPT
        !.hooks = [h \in HookIds |->
                     IF h \in Children
                     THEN IF shown THEN (IF @[h].mounted THEN @[h] ELSE MountedHook)
                          ELSE NoHook
                     ELSE @[h]],
        !.fetches = [i \in DOMAIN @ |->
                       IF @[i].by \in gone THEN [@[i] EXCEPT !.live = FALSE]
                       ELSE @[i]]]

\* loadTranslations up to its first await, run by the effect of instance h
loadTranslations(st, h, language) ==
  IF Truthy(st.translationCache[language])
  THEN [st EXCEPT !.hooks[h].isLoaded = TRUE, !.hooks[h].language = language]
  ELSE IF st.loadingStates[language]
  THEN [st EXCEPT !.hooks[h].polling = @ \cup {language},
                  !.hooks[h].language = language]
  ELSE [st EXCEPT !.hooks[h].isLoaded = FALSE,
                  !.hooks[h].language = language,
                  !.loadingStates[language] = TRUE,
                  !.fetches = Append(@, [file |-> language, by |-> h,
                                         language |-> language, role |-> "load",
                                         live |-> TRUE])]

\* the effects of one commit, in the order React runs them
RECURSIVE RunEffects(_, _)
RunEffects(st, order) ==
  IF order = <<>> THEN st
  ELSE RunEffects(IF EffectPending(st, Head(order))
                  THEN loadTranslations(st, Head(order), RenderLanguage)
                  ELSE st,
                  Tail(order))

\* what no step of the hooks touches
HookFrame ==
  UNCHANGED <<appState, isInitialized, dateState, storage, persistPending,
              reloadRequested, crashed, now, navigatorLanguage, aiState, aiLast,
              viewState, tzOffset, lastImport, batch, writeFailures, activeView>>

\* the useTranslation effects of the last commit
translationEffects ==
  /\ mounted /\ ~crashed /\ ~reloadRequested
  /\ RenderLanguage \in Langs
  /\ ~EffectsDone
  /\ i18n' = Rendered(RunEffects(i18n, HookOrder), isInitialized, activeView)
  /\ tLast' = NoTCall
  /\ HookFrame

\* setIsLoaded(true) of the instance that awaited the fetch f
Loaded(hooks, f) ==
  IF f.live THEN [hooks EXCEPT ![f.by].isLoaded = TRUE] ELSE hooks

Without(seq, i) == SubSeq(seq, 1, i - 1) \o SubSeq(seq, i + 1, Len(seq))

\* loadTranslations after an await: the fetch i delivered `data`
AfterFetch(st, i, data) ==
  LET f == st.fetches[i]
      finally == [st EXCEPT !.hooks = Loaded(@, f),
                            !.loadingStates[f.language] = FALSE,
                            !.fetches = Without(@, i)]
  IN IF data # Failed
     THEN [finally EXCEPT !.translationCache[f.file] = data]
     ELSE IF f.role = "load" /\ f.language # "en" /\ ~Truthy(st.translationCache["en"])
          THEN [st EXCEPT !.fetches[i] = [f EXCEPT !.file = "en", !.role = "fallback"]]
          ELSE finally

\* a fetch of a locale file completes
fetchDone(i, data) ==
  /\ mounted /\ ~crashed /\ ~reloadRequested
  /\ EffectsDone
  /\ i \in DOMAIN i18n.fetches
  /\ i18n' = Rendered(AfterFetch(i18n, i, data), isInitialized, activeView)
  /\ tLast' = NoTCall
  /\ HookFrame

\* the 100 ms timer of checkLoaded fires for instance h
checkLoaded(h, language) ==
  /\ mounted /\ ~crashed /\ ~reloadRequested
  /\ EffectsDone
  /\ language \in i18n.hooks[h].polling
  /\ i18n' = IF Truthy(i18n.translationCache[language])
             THEN Rendered([i18n EXCEPT !.hooks[h].isLoaded = TRUE,
                                        !.hooks[h].polling = @ \ {language}],
                           isInitialized, activeView)
             ELSE i18n
  /\ tLast' = NoTCall
  /\ HookFrame

\* the navigation buttons of App
setActiveView(view) ==
  /\ Ready /\ mounted
  /\ GateOpen(i18n, isInitialized)
  /\ EffectsDone
  /\ view # activeView
  /\ activeView' = view
  /\ i18n' = Rendered(i18n, isInitialized, view)
  /\ tLast' = NoTCall
  /\ UNCHANGED <<appState, isInitialized, dateState, storage, persistPending,
                 reloadRequested, crashed, now, navigatorLanguage, aiState, aiLast,
                 viewState, tzOffset, lastImport, batch, writeFailures>>

\* a render of the mounted instance h calls t(key)
translate(h, key) ==
  /\ mounted /\ ~crashed /\ ~reloadRequested
  /\ i18n.hooks[h].mounted
  /\ RenderLanguage \in Langs
  /\ tLast' = [key |-> key, language |-> RenderLanguage,
               isLoaded |-> i18n.hooks[h].isLoaded,
               text |-> t(i18n.translationCache, RenderLanguage,
                          i18n.hooks[h].isLoaded, key)]
  /\ UNCHANGED i18n
  /\ HookFrame

\* settings, chat, import and persistence
Next ==
  \/ Mount
  \/ Load
  \/ PersistOk
  \/ PersistFail
  \/ \E localState \in SettingsInputs : handleSave(localState)
  \/ handleSendStart
  \/ \E i \in DOMAIN aiOps : \E outcome \in AiOutcomes : handleSendReply(i, outcome)
  \/ clearChat
  \/ \E file \in ImportFiles : handleImport(file)
  \/ Reload

Spec == Init /\ [][Next]_vars

\* React runs the first render, and then the effects of the commit, without
\* waiting for any event
SpecLive == Spec /\ WF_vars(Mount) /\ WF_vars(Load)

\* the daily logs
NextLog ==
  \/ Mount
  \/ Load
  \/ PersistOk
  \/ PersistFail
  \/ Tick
  \/ \E d \in Dates : setSelectedDate(d)
  \/ \E food \in FoodInputs : addFood(food)
  \/ \E exercise \in ExerciseInputs : addExercise(exercise)
  \/ \E id \in AllIds(appState) : removeFood(id)
  \/ \E id \in AllIds(appState) : removeExercise(id)

SpecLog == Init /\ [][NextLog]_vars

\* the selected date, at any hour and in any timezone
NextDate ==
  \/ Mount
  \/ Load
  \/ PersistOk
  \/ \E days \in {0 - 1, 1} : changeDate(days)
  \/ \E food \in FoodInputs : addFood(food)

SpecDate == InitDate /\ [][NextDate]_vars

\* the chat, with the AI view left and entered again
NextChat ==
  \/ Mount
  \/ Load
  \/ PersistOk
  \/ \E localState \in SettingsInputs : handleSave(localState)
  \/ handleSendStart
  \/ \E i \in DOMAIN aiOps : \E outcome \in AiOutcomes : handleSendReply(i, outcome)
  \/ clearChat
  \/ remountChat

SpecChat == Init /\ [][NextChat]_vars

\* effects run and every awaited request ends, in one of its outcomes; the user
\* need not act
SpecChatLive ==
  /\ SpecChat
  /\ WF_vars(Mount) /\ WF_vars(Load) /\ WF_vars(PersistOk)
  /\ WF_vars(\E i \in DOMAIN aiOps : \E outcome \in AiOutcomes :
               handleSendReply(i, outcome))

\* the AI operations and the handlers that await them
NextAi ==
  \/ Mount
  \/ Load
  \/ PersistOk
  \/ \E localState \in SettingsInputs : handleSave(localState)
  \/ \E d \in Dates : setSelectedDate(d)
  \/ handleSendStart
  \/ \E i \in DOMAIN aiOps : \E outcome \in AiOutcomes : handleSendReply(i, outcome)
  \/ handleScan
  \/ \E i \in DOMAIN aiOps : \E outcome \in AiOutcomes : handleScanEnd(i, outcome)
  \/ \E food \in FoodInputs : submitFood(food)
  \/ \E i \in DOMAIN aiOps : \E outcome \in AiOutcomes : submitFoodEnd(i, outcome)
  \/ \E exercise \in ExerciseInputs : submitExercise(exercise)
  \/ \E i \in DOMAIN aiOps : \E outcome \in AiOutcomes : submitExerciseEnd(i, outcome)
  \/ \E id \in AllIds(appState) : removeFood(id)

SpecAi == Init /\ [][NextAi]_vars

\* the forms that add an entry after an AI await, with the settings and the
\* selected date changing meanwhile
NextForms ==
  \/ Mount
  \/ Load
  \/ PersistOk
  \/ \E localState \in SettingsInputs : handleSave(localState)
  \/ \E d \in Dates : setSelectedDate(d)
  \/ \E food \in FoodInputs : submitFood(food)
  \/ \E i \in DOMAIN aiOps : \E outcome \in AiOutcomes : submitFoodEnd(i, outcome)
  \/ \E exercise \in ExerciseInputs : submitExercise(exercise)
  \/ \E i \in DOMAIN aiOps : \E outcome \in AiOutcomes : submitExerciseEnd(i, outcome)
  \/ \E id \in AllIds(appState) : removeFood(id)

SpecForms == Init /\ [][NextForms]_vars

TypeOK ==
  /\ isInitialized \in BOOLEAN
  /\ DOMAIN appState = Keys
  /\ now \in Clock0 .. Clock0 + MaxClock

\* the page opened with a language stored by an earlier session, or none
InitLang ==
  /\ InitView
  /\ storage \in {NoItem} \cup {StoredLanguage(l) : l \in Langs}
  /\ tzOffset = 0
  /\ selectedDate = NoonOf(Today)
  /\ dateString = getDateString(selectedDate)

\* the hooks of App and of the log view while locale files are fetched
NextI18n ==
  \/ Mount
  \/ Load /\ EffectsDone
  \/ PersistOk
  \/ translationEffects
  \/ \E i \in DOMAIN i18n.fetches :
       \E data \in {Failed, LocaleFile(i18n.fetches[i].file)} : fetchDone(i, data)
  \/ \E h \in HookIds : \E l \in Langs : checkLoaded(h, l)
  \/ \E view \in {"dashboard", "log"} : setActiveView(view)
  \/ \E localState \in SettingsInputs : handleSave(localState) /\ EffectsDone

SpecI18n == InitLang /\ [][NextI18n]_vars

\* effects run, fetches complete and timers fire; the user need not act
SpecI18nLive ==
  /\ SpecI18n
  /\ WF_vars(Mount) /\ WF_vars(Load /\ EffectsDone) /\ WF_vars(PersistOk)
  /\ WF_vars(translationEffects)
  /\ WF_vars(\E i \in DOMAIN i18n.fetches :
               \E data \in {Failed, LocaleFile(i18n.fetches[i].file)} : fetchDone(i, data))
  /\ WF_vars(\E h \in HookIds : \E l \in Langs : checkLoaded(h, l))

\* the lookup t over whatever the locale files hold
NextT ==
  \/ Mount
  \/ Load /\ EffectsDone
  \/ PersistOk
  \/ translationEffects
  \/ \E i \in DOMAIN i18n.fetches :
       \E data \in {Failed} \cup LocaleTrees : fetchDone(i, data)
  \/ \E key \in TKeys : translate("App", key)

SpecT == InitLang /\ [][NextT]_vars

-----------------------------------------------------------------------------
(* Properties *)

\* the state the load effect produced, before any handler ran
JustLoaded == isInitialized /\ batch = <<>> /\ (persistPending \/ crashed)

\* the value handleImport parsed from the file it just read
Payload == Parse(lastImport.file)

\* handleImport just ran on a file that JSON.parse accepts
Imported == lastImport.file.t = "json" /\ ~lastImport.reloaded

\* the step is a run of the persist effect in which setItem returned
WriteDone ==
  /\ persistPending /\ ~persistPending' /\ isInitialized'
  /\ storage # Unavailable /\ writeFailures' = writeFailures

\* the text holds every field of the state s, and no other field of AppState
HoldsAll(text, s) ==
  /\ text.t = "json"
  /\ \A k \in Keys : Get(Parse(text), k) = s[k]

\* v has the type the data model gives the field k
ValidShape(k, v) ==
  CASE k = "dailyGoal" -> v.t = "number"
    [] k = "apiKey" -> v.t \in {"string", "null"}
    [] k = "aiModel" -> v.t = "string"
    [] k = "language" -> v \in {Str("en"), Str("zh-TW")}
    [] k \in {"customFoods", "chatHistory"} -> v.t = "array"
    [] OTHER -> v.t = "object"

\* C1: from every state the page can be in, on every date D, addFood on D
\* followed by removeFood on D of the id addFood generated gives D the food
\* list it had before the add.
C1_RoundTrip ==
  Ready =>
    \A d \in Dates : \A food \in FoodInputs :
      getLogForDate(
        removeFoodUpdater(addFoodUpdater(appState, food, d, now), toString(now), d),
        d).food
      = getLogForDate(appState, d).food

\* the ids of a list of entries are pairwise distinct
DistinctIds(entries) ==
  \A i, j \in DOMAIN entries : i # j => entries[i].id # entries[j].id

\* C2: in every DailyLog the food entries have pairwise distinct ids and the
\* exercise entries have pairwise distinct ids, whenever the adds were issued.
C2_UniqueIds ==
  appState.logs.t = "object" =>
    \A d \in DOMAIN appState.logs.v :
      /\ DistinctIds(appState.logs.v[d].food)
      /\ DistinctIds(appState.logs.v[d].exercise)

Malformed(file) ==
  /\ file.t = "json"
  /\ \/ Get(Parse(file), "logs") = Undef
     \/ TypeOf(Get(Parse(file), "dailyGoal")) # "number"

\* C4: importData of a payload without logs, or with a dailyGoal that is not a
\* number, returns false, throws nothing and changes neither AppState nor
\* the stored text, and schedules no write.
C4_MalformedRejected ==
  [][ (lastImport' # lastImport /\ ~lastImport'.reloaded /\ Malformed(lastImport'.file)) =>
        /\ ~lastImport'.ret
        /\ ~lastImport'.threw
        /\ appState' = appState
        /\ storage' = storage
        /\ ~persistPending'
        /\ ~reloadRequested' ]_vars

\* C4 witness: a payload whose dailyGoal is a string was refused
C4_Witness ==
  /\ Imported /\ Malformed(lastImport.file)
  /\ Get(Payload, "dailyGoal").t = "string"
  /\ ~lastImport.ret /\ isInitialized

\* C5: importData returns true only for a payload whose logs is a mapping and
\* whose dailyGoal is a number.
C5_OnlyMappings ==
  (Imported /\ lastImport.ret) =>
    /\ Get(Payload, "logs").t = "object"
    /\ TypeOf(Get(Payload, "dailyGoal")) = "number"

\* C6: after the reload that follows an accepted file the rehydrated state is
\* the imported state (no write to localStorage having failed); after a
\* refused file there is no reload and nothing is scheduled to be written.
C6_FileImport ==
  /\ (lastImport.ret /\ lastImport.reloaded /\ isInitialized /\ writeFailures = 0) =>
       appState = AsState(Payload)
  /\ (lastImport.file.t # "none" /\ ~lastImport.ret) =>
       (~reloadRequested /\ ~persistPending)

C8_FailedWriteKeepsState ==
  [][ writeFailures' > writeFailures =>
        /\ appState' = appState
        /\ (batch # <<>> => appState' = batch[Len(batch)])
        /\ storage' = storage
        /\ ~crashed' /\ isInitialized'
        /\ (Ready' \/ reloadRequested') ]_vars

\* C8 witness: after a failed write a later mutation was committed
C8_Witness ==
  /\ writeFailures > 0 /\ persistPending /\ batch # <<>>
  /\ ~HoldsAll(storage, appState)

\* C9: after the load of a stored object, every field that is absent from it
\* or has a value of the wrong type holds its default.
C9_InvalidFallsBack ==
  (JustLoaded /\ storage.t = "json" /\ Parse(storage).t = "object") =>
    \A k \in Keys :
      (k \notin DOMAIN Parse(storage).v \/ ~ValidShape(k, Parse(storage).v[k])) =>
        appState[k] = initialAppState(navigatorLanguage)[k]

C11_FallsBackToDefaults ==
  (JustLoaded /\ storage \in {NoItem, Unavailable, Garbage}) =>
    /\ appState = initialAppState(navigatorLanguage)
    /\ ~crashed

\* C11 witness: the load effect ran on text that JSON.parse rejects and the
\* page went on to schedule its first write
C11_Witness ==
  /\ JustLoaded /\ storage = Garbage
  /\ persistPending /\ ~crashed
  /\ appState.logs = EmptyObj

\* C12: within one page the flag is set only by the load effect and is never
\* cleared again (only unloading the page starts over), and every startup,
\* whatever localStorage holds, reaches the initialized flag.
C12_InitializedOnce ==
  /\ [][ /\ (isInitialized /\ ~isInitialized') => (reloadRequested /\ ~mounted')
         /\ (~isInitialized /\ isInitialized') => (mounted /\ JustLoaded') ]_vars
  /\ (~isInitialized ~> isInitialized)

\* C12 witness: a second startup, after the reload of an import, is initialized
\* although its load fell back to the defaults
C12_Witness ==
  /\ isInitialized /\ lastImport.reloaded
  /\ storage \in {NoItem, Unavailable, Garbage}
  /\ ~reloadRequested

\* C13: while isInitialized is false App's render reads no field of appState.
C13_NoReadBeforeInit == uninitReads = {}

\* C14: whenever no AI operation is in flight, globalThis.fetch is the fetch
\* that was installed before the first operation started.
C14_FetchRestored == aiOps = <<>> => globalFetch = 0

\* C15: an AI operation called without an API key answers with a text in the
\* active language, calls the network not at all and leaves globalThis.fetch as
\* it found it.
C15_MissingKeyShortCircuits ==
  aiLast.phase = "short-circuit" =>
    /\ aiLast.language \in {Str("en"), Str("zh-TW")} =>
         aiLast.lang = aiLast.language.v
    /\ ~aiLast.network
    /\ globalFetch = aiLast.fetchBefore

\* the sequence a is an initial part of the sequence b
IsPrefix(a, b) == Len(a) <= Len(b) /\ SubSeq(b, 1, Len(a)) = a

\* C16: in every step that does not leave chatHistory empty, as
\* clearChatHistory does, the previous chatHistory is a prefix of the new one.
C16_ChatAppendOnly ==
  [][ ChatOf(appState') # <<>> => IsPrefix(ChatOf(appState), ChatOf(appState')) ]_vars

\* every entry of every log of s is still in t, at its place
LogsGrow(s, s2) ==
  \A d \in DOMAIN s.logs.v :
    /\ d \in DOMAIN s2.logs.v
    /\ IsPrefix(s.logs.v[d].food, s2.logs.v[d].food)
    /\ IsPrefix(s.logs.v[d].exercise, s2.logs.v[d].exercise)

\* the fields the settings form writes
SettingKeys == Keys \ {"logs", "chatHistory", "customFoods"}

\* an add that was queued after an AI await has just been applied
ResumedAdd ==
  /\ aiLast'.phase = "ended"
  /\ aiLast'.kind \in {"getAiFoodCalories", "getAiExerciseCalories"}
  /\ batch' # <<>>

\* C17: every mutation is applied to the latest state: a step that changes the
\* logs keeps every other field as the step found it, a step that changes a
\* setting keeps the logs and the chat, and an add that resumes after an AI
\* await keeps every entry that was there and adds exactly one.
C17_NoLostUpdate ==
  [][ Ready =>
        /\ appState'.logs # appState.logs =>
             \A k \in Keys \ {"logs"} : appState'[k] = appState[k]
        /\ (\E k \in SettingKeys : appState'[k] # appState[k]) =>
             /\ appState'.logs = appState.logs
             /\ appState'.chatHistory = appState.chatHistory
        /\ ResumedAdd =>
             /\ LogsGrow(appState, appState')
             /\ AllEntries(appState') = AllEntries(appState) + 1 ]_vars

\* C17 witness: a food entry was added by a submit that resumed after the
\* settings had been saved again (the key it was submitted with is gone), and
\* the entry and the later settings are both there
C17_Witness ==
  /\ aiLast.phase = "ended" /\ aiLast.kind = "getAiFoodCalories"
  /\ batch # <<>>
  /\ appState.apiKey = Str("") /\ appState.dailyGoal = Num(1800)
  /\ AllEntries(appState) >= 1

\* a date no log was ever written for
UnusedDate == "2023-12-31"

\* C18: for every date that is absent from the logs mapping, getLogForDate
\* returns a DailyLog whose food and exercise lists are empty, and the state
\* after the call is the state before it.
C18_EmptyLogForAbsentDate ==
  appState.logs.t = "object" =>
    \A d \in Dates \cup {UnusedDate} :
      d \notin DOMAIN appState.logs.v =>
        /\ DOMAIN getLogForDate(appState, d) = {"food", "exercise"}
        /\ getLogForDate(appState, d).food = <<>>
        /\ getLogForDate(appState, d).exercise = <<>>
        /\ AfterGetLog(appState, d) = appState

\* C18 witness: one date has entries, the selected date has none, and the log
\* read for it is empty
C18_Witness ==
  /\ Ready /\ AllEntries(appState) > 0
  /\ ~HasLog(appState, dateString)
  /\ getLogForDate(appState, dateString).food = <<>>

\* e carries the fields of `given` and, besides them, an id
IsEntryOf(e, given) ==
  /\ DOMAIN e = DOMAIN given \cup {"id"}
  /\ \A k \in DOMAIN given \ {"id"} : e[k] = given[k]

\* t differs from s in nothing but the DailyLog of the date d, which t has
SameButLog(s, s2, d) ==
  /\ \A k \in Keys \ {"logs"} : s2[k] = s[k]
  /\ s2.logs.t = "object"
  /\ DOMAIN s2.logs.v = DOMAIN s.logs.v \cup {d}
  /\ \A x \in DOMAIN s.logs.v \ {d} : s2.logs.v[x] = s.logs.v[x]

\* C19: from every state the page can be in, addFood (resp. addExercise) puts
\* one entry, with the given fields and an id, at the end of the selected
\* date's food (resp. exercise) list, creating the DailyLog if need be, and
\* leaves the other list, the other dates and the other fields as they were.
C19_AddAppendsOne ==
  Ready =>
    /\ \A food \in FoodInputs :
         LET s2 == addFoodUpdater(appState, food, dateString, now)
             old == getLogForDate(appState, dateString)
             new == s2.logs.v[dateString]
         IN /\ SameButLog(appState, s2, dateString)
            /\ Len(new.food) = Len(old.food) + 1
            /\ SubSeq(new.food, 1, Len(old.food)) = old.food
            /\ IsEntryOf(new.food[Len(new.food)], food)
            /\ new.exercise = old.exercise
    /\ \A exercise \in ExerciseInputs :
         LET s2 == addExerciseUpdater(appState, exercise, dateString, now)
             old == getLogForDate(appState, dateString)
             new == s2.logs.v[dateString]
         IN /\ SameButLog(appState, s2, dateString)
            /\ Len(new.exercise) = Len(old.exercise) + 1
            /\ SubSeq(new.exercise, 1, Len(old.exercise)) = old.exercise
            /\ IsEntryOf(new.exercise[Len(new.exercise)], exercise)
            /\ new.food = old.food

\* C19 witness: addFood ran on a date whose food list already held an entry
\* with another id, and the new entry is the second of the list
C19_Witness ==
  /\ isInitialized /\ persistPending /\ Len(batch) = 1
  /\ HasLog(appState, dateString)
  /\ Len(appState.logs.v[dateString].food) = 2
  /\ appState.logs.v[dateString].food[2].id = toString(now)
  /\ appState.logs.v[dateString].food[1].id # toString(now)

\* an id no entry has
AbsentId == toString(0)

\* the positions of the entries with the given id
Matching(entries, id) == {i \in DOMAIN entries : entries[i].id = id}

\* `after` is `before` with the one entry at position i taken out
OneTakenOut(before, after, i) ==
  /\ Len(after) = Len(before) - 1
  /\ \A j \in DOMAIN after : after[j] = IF j < i THEN before[j] ELSE before[j + 1]

\* C20: from every state the page can be in, removeFood(id) (resp.
\* removeExercise(id)) changes nothing when the selected date has no DailyLog
\* or no entry with that id, and otherwise takes that one entry out of the
\* selected date's food (resp. exercise) list and leaves all else as it was.
C20_RemoveOnlyMatching ==
  Ready =>
    \A id \in AllIds(appState) \cup {AbsentId} :
      LET old == getLogForDate(appState, dateString)
          f == removeFoodUpdater(appState, id, dateString)
          e == removeExerciseUpdater(appState, id, dateString)
      IN /\ IF ~HasLog(appState, dateString) \/ Matching(old.food, id) = {}
            THEN f = appState
            ELSE /\ SameButLog(appState, f, dateString)
                 /\ f.logs.v[dateString].exercise = old.exercise
                 /\ \E i \in Matching(old.food, id) :
                      OneTakenOut(old.food, f.logs.v[dateString].food, i)
         /\ IF ~HasLog(appState, dateString) \/ Matching(old.exercise, id) = {}
            THEN e = appState
            ELSE /\ SameButLog(appState, e, dateString)
                 /\ e.logs.v[dateString].food = old.food
                 /\ \E i \in Matching(old.exercise, id) :
                      OneTakenOut(old.exercise, e.logs.v[dateString].exercise, i)

\* the calendar day of the instant on a device whose timezone is tz
LocalDay(date, tz) == Calendar[((date + tz) \div 24) + 1]

\* C21: the key under which the entries of the selected date are stored and
\* looked up is the local calendar day of the selected date, at every hour
\* and in every timezone.
C21_LocalDayKey == dateString = LocalDay(selectedDate, tzOffset)

\* C22: whatever way its request ends, getAiAdvice resolves with a text; it
\* never rejects.
C22_AdviceNeverRejects ==
  (aiLast.phase = "ended" /\ aiLast.kind = "getAiAdvice") => aiLast.how = "return"


\* t is s with the field k replaced by the value v
OnlyField(s, s2, k, v) == s2[k] = v /\ \A j \in Keys \ {k} : s2[j] = s[j]

\* the profile `new` is the profile `old` overwritten by the fields of `partial`
MergedProfile(old, partial, new) ==
  /\ new.t = "object"
  /\ DOMAIN new.v = (DOMAIN Spread(old)) \cup (DOMAIN Spread(partial))
  /\ \A k \in DOMAIN Spread(partial) : new.v[k] = Spread(partial)[k]
  /\ \A k \in (DOMAIN Spread(old)) \ (DOMAIN Spread(partial)) :
       new.v[k] = Spread(old)[k]

\* the six states a save produced from s are those of the six setters, each
\* changing its own field only
SavedAs(s, produced, ls) ==
  /\ OnlyField(s, produced[1], "apiKey", ls.apiKey)
  /\ OnlyField(produced[1], produced[2], "aiModel", ls.aiModel)
  /\ OnlyField(produced[2], produced[3], "language", ls.language)
  /\ OnlyField(produced[3], produced[4], "userProfile", produced[4].userProfile)
  /\ MergedProfile(produced[3].userProfile, ls.userProfile, produced[4].userProfile)
  /\ OnlyField(produced[4], produced[5], "dailyGoal", ls.dailyGoal)
  /\ OnlyField(produced[5], produced[6], "macronutrientGoals", ls.macronutrientGoals)

\* the chat handler has just called setChatHistory, before or after its await
ChatCommit ==
  \/ handleSendStart
  \/ \E i \in DOMAIN aiOps : \E outcome \in AiOutcomes : handleSendReply(i, outcome)

\* C24: each setter replaces its own field with the given value and keeps every
\* other field of AppState: the six states a settings save produces differ from
\* their predecessors in the setter's field only, updateUserProfile keeps the
\* profile fields its partial input does not name, and a commit made by the
\* chat handler (setChatHistory) changes chatHistory only.
C24_SettersFrame ==
  [][ (Ready /\ persistPending') =>
        /\ Len(batch') = 6 =>
             \E ls \in SettingsInputs : SavedAs(appState, batch', ls)
        /\ ChatCommit =>
             /\ appState'.chatHistory.t = "array"
             /\ OnlyField(appState, appState', "chatHistory", appState'.chatHistory) ]_vars

\* C24 witness: a save with a partial profile (weight only) was applied on top
\* of a full profile: the weight is the new one, the age is the earlier one
C24_Witness ==
  /\ Len(batch) = 6
  /\ appState.userProfile.t = "object"
  /\ {"age", "weight"} \subseteq DOMAIN appState.userProfile.v
  /\ appState.userProfile.v.weight = Num(80)
  /\ appState.userProfile.v.age = Num(30)
  /\ appState.dailyGoal = Num(1800)


\* the number of entries logged under the date d
EntriesAt(s, d) == Len(getLogForDate(s, d).food) + Len(getLogForDate(s, d).exercise)

\* C25: an add that resumes after the AI estimate appends its entry to the log
\* of the date that is selected when it is applied.
C25_AddGoesToActiveDate ==
  [][ (Ready /\ ResumedAdd) =>
        EntriesAt(appState', dateString') = EntriesAt(appState, dateString') + 1 ]_vars


\* C28: durable storage changes only while isInitialized is true, what is
\* written is the in-memory state of that moment, and a write that follows
\* the startup load with no commit in between holds the loaded state.
C28_NoWriteBeforeInit ==
  [][ storage' # storage =>
        /\ isInitialized /\ isInitialized'
        /\ storage' = PersistedText(appState)
        /\ batch = <<>> => appState = LoadState(storage, navigatorLanguage) ]_vars

\* C28 witness: a stored state that differs from the defaults was loaded and
\* the first write has replaced the stored text by the text of that state
C28_Witness ==
  /\ isInitialized /\ ~persistPending /\ ~crashed
  /\ batch = <<>> /\ lastImport = NoImport
  /\ appState.dailyGoal = Num(2100)
  /\ storage = PersistedText(appState)
  /\ storage # Json(Obj([dailyGoal |-> Num(2100)]))


\* C29: once the write of the in-memory state has succeeded, a restart loads
\* a state equal to it.
C29_RestartRoundTrip ==
  (isInitialized /\ ~crashed /\ ~persistPending /\ storage = PersistedText(appState))
    => LoadState(storage, navigatorLanguage) = appState


\* the text a locale tree holds under a dotted key: every segment but the last
\* names a section, the last one a text
RECURSIVE StringAt(_, _)
StringAt(tree, path) ==
  IF tree.t # "object" \/ path = <<>> THEN Undef
  ELSE IF Len(path) = 1
       THEN (IF Get(tree, path[1]).t = "string" THEN Get(tree, path[1]) ELSE Undef)
       ELSE StringAt(Get(tree, path[1]), Tail(path))

\* C23: once translations are loaded, t(key) returns the active language's
\* text when the key exists there, otherwise, for a language other than
\* English, the English text when the key exists in English, otherwise the key
\* itself; what it returns is always a string.
C23_LookupWithFallback ==
  (tLast.key # "" /\ tLast.isLoaded) =>
    LET own == StringAt(i18n.translationCache[tLast.language], Split(tLast.key))
        english == StringAt(i18n.translationCache["en"], Split(tLast.key))
    IN /\ tLast.text.t = "string"
       /\ tLast.text = IF own.t = "string" THEN own
                       ELSE IF tLast.language # "en" /\ english.t = "string"
                            THEN english
                            ELSE Str(tLast.key)

\* C23 witness: with both files loaded, a key that the zh-TW file lacks was
\* looked up in zh-TW and the English text came back
C23_Witness ==
  /\ tLast.isLoaded /\ tLast.language = "zh-TW" /\ tLast.key = "title"
  /\ i18n.translationCache["zh-TW"] = LocaleFile("zh-TW")
  /\ i18n.translationCache["en"] = LocaleFile("en")
  /\ tLast.text = Str("Tracker")


\* C26: at no time are two fetches of the same locale file in flight, and no
\* fetch is in flight for a file that is already in the cache.
C26_NoDuplicateFetch ==
  /\ \A i, j \in DOMAIN i18n.fetches :
       i # j => i18n.fetches[i].file # i18n.fetches[j].file
  /\ \A i \in DOMAIN i18n.fetches :
       ~Truthy(i18n.translationCache[i18n.fetches[i].file])

\* the instance h is waiting: for a fetch of its own or for its timer
Waiting(h) ==
  \/ i18n.hooks[h].polling # {}
  \/ \E i \in DOMAIN i18n.fetches : i18n.fetches[i].by = h /\ i18n.fetches[i].live

\* C27: every mounted instance of useTranslation eventually reports
\* isLoaded = true, and an instance that polls eventually stops polling.
C27_EventuallyLoaded ==
  \A h \in HookIds :
    /\ i18n.hooks[h].mounted ~> (i18n.hooks[h].isLoaded \/ ~i18n.hooks[h].mounted)
    /\ (i18n.hooks[h].polling # {}) ~> (i18n.hooks[h].polling = {})


\* C30: a loading flag that a handler set before its AI request is eventually
\* reset to false, whether the request succeeds or fails.
C30_LoadingFlagReset == isLoading ~> ~isLoading

====
